---- MODULE Spec2Model ----
(***************************************************************************)
(* Model of the agent registry of services/agent-gateway                   *)
(* (src/services/agent-gateway/src/agent_service.py).                      *)
(*                                                                         *)
(* Strings are modelled as sequences of one-character strings, so that     *)
(* path normalisation and file naming are computed character by character  *)
(* as the Python code computes them.                                       *)
(*                                                                         *)
(* The data directory is modelled by `files` (one entry per existing       *)
(* *_agent.json file) and `stateFile` (state.json).  A write that raises   *)
(* either never opened the file (the file is left as it was) or opened it  *)
(* with mode "w" and failed later (the file is left truncated, i.e.        *)
(* unparseable): both outcomes are drawn nondeterministically.             *)
(***************************************************************************)
EXTENDS Integers, Sequences, FiniteSets, TLC

VARIABLES
    agents,     \* AgentService._agents : path -> AgentCard
    state,      \* AgentService._state  : [enabled : Seq, disabled : Seq]
    files,      \* data_dir/*_agent.json : filename -> file content
    stateFile,  \* data_dir/state.json   : file content
    clock,      \* datetime.now(timezone.utc), as a counter
    last,       \* the most recent call and what it returned to its caller
    loop        \* the asyncio event loop: the requests in flight and the
                \* handler that holds the loop

vars == <<agents, state, files, stateFile, clock, last, loop>>

-----------------------------------------------------------------------------
(* Bounds of the model.                                                    *)

\* datetime.now() is read at most MaxClock times (register and update).
MaxClock == 3

\* The longest string handed to the path normalizer on its own.
MaxLen == 4

\* The longest list in a state.json found at startup.
MaxListLen == 1

-----------------------------------------------------------------------------
(* Strings.                                                                *)

\* Python's None, where an Optional[str] is expected.
None == <<"None">>

\* No AgentCard (Python's None where an Optional[AgentCard] is expected).
NoCard == [none |-> TRUE]

\* str.startswith(prefix)
StartsWith(s, prefix) ==
    /\ Len(s) >= Len(prefix)
    /\ SubSeq(s, 1, Len(prefix)) = prefix

\* str.endswith(suffix)
EndsWith(s, suffix) ==
    /\ Len(s) >= Len(suffix)
    /\ SubSeq(s, Len(s) - Len(suffix) + 1, Len(s)) = suffix

\* str.rstrip(c) for a one-character c: drops every trailing c.
RECURSIVE RStrip(_, _)
RStrip(s, c) ==
    IF Len(s) > 0 /\ s[Len(s)] = c
    THEN RStrip(SubSeq(s, 1, Len(s) - 1), c)
    ELSE s

\* str.lstrip(c) for a one-character c: drops every leading c.
RECURSIVE LStrip(_, _)
LStrip(s, c) ==
    IF Len(s) > 0 /\ s[1] = c
    THEN LStrip(Tail(s), c)
    ELSE s

\* str.replace(a, b) for one-character a and b.
RECURSIVE Replace(_, _, _)
Replace(s, a, b) ==
    IF s = <<>> THEN <<>>
    ELSE <<IF Head(s) = a THEN b ELSE Head(s)>> \o Replace(Tail(s), a, b)

\* str.lower() on one character (the upper-case letters the model uses).
LowerChar(c) ==
    CASE c = "A" -> "a"
      [] c = "B" -> "b"
      [] c = "S" -> "s"
      [] c = "T" -> "t"
      [] OTHER   -> c

\* str.lower()
RECURSIVE Lower(_)
Lower(s) ==
    IF s = <<>> THEN <<>>
    ELSE <<LowerChar(Head(s))>> \o Lower(Tail(s))

\* str.strip() on a string whose only whitespace is " ".
Strip(s) == RStrip(LStrip(s, " "), " ")

\* str.split(sep) for a one-character sep: the pieces between the seps.
RECURSIVE Split(_, _)
Split(s, sep) ==
    IF \A i \in 1..Len(s) : s[i] # sep THEN <<s>>
    ELSE LET i == CHOOSE k \in 1..Len(s) : s[k] = sep /\ \A j \in 1..(k - 1) : s[j] # sep
         IN  <<SubSeq(s, 1, i - 1)>> \o Split(SubSeq(s, i + 1, Len(s)), sep)

\* sep.join(l) for a one-character sep.
RECURSIVE Join(_, _)
Join(l, sep) ==
    IF l = <<>> THEN <<>>
    ELSE IF Len(l) = 1 THEN Head(l)
    ELSE Head(l) \o <<sep>> \o Join(Tail(l), sep)

\* sub in s
Contains(s, sub) ==
    \E i \in 0..(Len(s) - Len(sub)) : SubSeq(s, i + 1, i + Len(sub)) = sub

\* x in list
InList(x, l) == \E i \in 1..Len(l) : l[i] = x

\* list.remove(x): removes the first occurrence of x (x is in the list).
RECURSIVE RemoveFirst(_, _)
RemoveFirst(l, x) ==
    IF l = <<>> THEN <<>>
    ELSE IF Head(l) = x THEN Tail(l)
    ELSE <<Head(l)>> \o RemoveFirst(Tail(l), x)

\* The number of occurrences of x in a list.
RECURSIVE Count(_, _)
Count(l, x) ==
    IF l = <<>> THEN 0
    ELSE (IF Head(l) = x THEN 1 ELSE 0) + Count(Tail(l), x)

\* The elements of a list.
Elems(l) == {l[i] : i \in 1..Len(l)}

\* Every ordering of a finite set, as sequences without repetition.
Orderings(S) ==
    {q \in [1..Cardinality(S) -> S] : \A i, j \in 1..Cardinality(S) : q[i] = q[j] => i = j}

-----------------------------------------------------------------------------
(* Path normalizer.                                                        *)

FileSuffix == <<"_", "a", "g", "e", "n", "t", ".", "j", "s", "o", "n">>

\* _path_to_filename(path)
PathToFilename(path) ==
    LET normalized == Replace(LStrip(path, "/"), "/", "_")
    IN  IF ~EndsWith(normalized, FileSuffix)
        THEN normalized \o FileSuffix
        ELSE normalized

\* A _normalize_path that never raises.
NormalizeRaisesNever(path, agent_name) == FALSE

\* _normalize_path raises ValueError("Path or agent_name required").
NormalizeRaises(path, agent_name) ==
    path = None /\ (agent_name = None \/ agent_name = <<>>)

\* A _normalize_path that keeps a trailing "/".
NormalizePathKeepSlash(path, agent_name) ==
    LET p1 == IF path = None THEN Replace(Lower(agent_name), " ", "-") ELSE path
    IN  IF ~StartsWith(p1, <<"/">>) THEN <<"/">> \o p1 ELSE p1

\* _normalize_path(path, agent_name), where it does not raise.
NormalizePath(path, agent_name) ==
    LET p1 == IF path = None THEN Replace(Lower(agent_name), " ", "-") ELSE path
        p2 == IF ~StartsWith(p1, <<"/">>) THEN <<"/">> \o p1 ELSE p1
    IN  IF Len(p2) > 1 THEN RStrip(p2, "/") ELSE p2

-----------------------------------------------------------------------------
(* Records and files.                                                      *)

\* Skill(**skill_data) validates: id, name and description are required.
SkillValid(skill_data) == {"id", "name", "description"} \subseteq DOMAIN skill_data

\* Skill(**skill_data): the fields the model keeps.
ParseSkill(skill_data) ==
    [id |-> skill_data.id, name |-> skill_data.name, description |-> skill_data.description]

\* register, line 112: the non-blank pieces of the comma-separated tags.
ParseTags(tags) ==
    LET pieces == Split(tags, ",")
        NonBlank(t) == Strip(t) # <<>>
        kept == SelectSeq(pieces, NonBlank)
    IN  [i \in 1..Len(kept) |-> Strip(kept[i])]

\* The AgentCard register builds (the fields the model keeps).
NewCard(request, path, skills, now) ==
    [name          |-> request.name,
     description   |-> request.description,
     path          |-> path,
     skills        |-> skills,
     tags          |-> ParseTags(request.tags),
     registered_at |-> now,
     updated_at    |-> now,
     is_enabled    |-> TRUE]

\* The content of a file that json.load parses: what json.dump wrote.
Json(data) == [kind |-> "json", data |-> data]

\* The content of a file that json.load rejects (a truncated write).
Garbage == [kind |-> "garbage", data |-> NoCard]

\* state.json does not exist.
Missing == [kind |-> "missing", data |-> NoCard]

\* AgentService.__init__: self._state
EmptyState == [enabled |-> <<>>, disabled |-> <<>>]

\* The outcomes of a write: it succeeds, raises before the file is opened, or
\* raises after open(..., "w") truncated the file.
WriteOutcomes == {"ok", "fail_open", "fail_partial"}

\* The outcomes of Path.unlink(): it succeeds or raises OSError.
UnlinkOutcomes == {"ok", "fail"}

\* _save_agent: the record files afterwards.
SaveAgentFiles(fs, agent, wr) ==
    LET filename == PathToFilename(agent.path)
    IN  CASE wr = "ok"           -> (filename :> Json(agent)) @@ fs
          [] wr = "fail_open"    -> fs
          [] wr = "fail_partial" -> (filename :> Garbage) @@ fs

\* _save_agent: its return value.
SaveAgentReturns(wr) == wr = "ok"

\* _save_state: state.json afterwards (a failure is logged and swallowed).
SaveStateFile(sf, st, ws) ==
    CASE ws = "ok"           -> Json(st)
      [] ws = "fail_open"    -> sf
      [] ws = "fail_partial" -> Garbage

\* _load_agents, line 58: AgentCard(**data) accepts the object (it has the
\* required fields, as strings).
RecordValid(data) ==
    /\ {"name", "description", "path"} \subseteq DOMAIN data
    /\ data.name # None /\ data.description # None /\ data.path # None

\* A loader that takes every file that parses.
LoadableFilesUnvalidated(fs) ==
    {f \in DOMAIN fs : EndsWith(f, FileSuffix) /\ fs[f].kind = "json"}

\* _load_agents, lines 55-61: the files of glob("*_agent.json") for which
\* neither json.load nor AgentCard(**data) raises.
LoadableFiles(fs) ==
    {f \in DOMAIN fs : EndsWith(f, FileSuffix) /\ fs[f].kind = "json" /\ RecordValid(fs[f].data)}

\* _load_agents: self._agents after the loop.  A file is named after the
\* path of the record it holds, so no two files hold the same path.
LoadAgents(fs) ==
    LET paths == {fs[f].data.path : f \in LoadableFiles(fs)}
    IN  [p \in paths |-> fs[CHOOSE f \in LoadableFiles(fs) : fs[f].data.path = p].data]

\* _load_state, lines 65-71: self._state after reading state.json.
LoadStateFile(sf, st) ==
    IF sf.kind = "json" THEN sf.data ELSE st

\* A reconciliation that looks at the enabled list only.
NewPathsIgnoringDisabled(ag, st) ==
    {p \in DOMAIN ag : ~InList(p, st.enabled)}

\* _load_state, lines 74-76: the paths the loop appends to enabled.
NewPaths(ag, st) ==
    {p \in DOMAIN ag : ~InList(p, st.enabled) /\ ~InList(p, st.disabled)}

\* _load_state, lines 74-76: self._state after the loop, which visits the
\* new paths in the order `order` (the order glob() listed their files).
Reconcile(st, order) ==
    IF order = <<>> THEN st ELSE [st EXCEPT !.enabled = @ \o order]

\* _load_state, line 75: the lookup of a key the loaded state lacks raises
\* KeyError. `and` evaluates self._state["disabled"] only for a path that
\* is not in self._state["enabled"].
LoadStateRaises(ag, st) ==
    \E p \in DOMAIN ag :
        \/ "enabled" \notin DOMAIN st
        \/ ~InList(p, st.enabled) /\ "disabled" \notin DOMAIN st

-----------------------------------------------------------------------------
(* Reads.                                                                  *)

\* AgentService.get(path)
Get(path) ==
    LET p == NormalizePath(path, None)
    IN  IF p \in DOMAIN agents THEN agents[p] ELSE NoCard

\* AgentService.list_agents(enabled_only), as the set of index keys whose
\* records it returns.
ListAgents(enabled_only) ==
    IF enabled_only
    THEN {k \in DOMAIN agents : InList(agents[k].path, state.enabled)}
    ELSE DOMAIN agents

\* AgentService.is_enabled(path)
IsEnabled(path) ==
    InList(NormalizePath(path, None), state.enabled)

-----------------------------------------------------------------------------
(* What a call reports to its caller.                                      *)

\* op: the operation; arg: the path it was called with; path: the normalised
\* path it acted on; res: what it returned ("ok": an AgentCard, "True",
\* "False") or the error it raised; ret: the AgentCard it
\* returned; wr, ws, ul: the outcome of its record-file write, state-file
\* write and unlink ("none": not attempted); en: toggle's `enabled` argument.
Report(op, arg, path, res, ret, wr, ws, ul, en) ==
    [op |-> op, arg |-> arg, path |-> path, res |-> res, ret |-> ret,
     wr |-> wr, ws |-> ws, ul |-> ul, en |-> en]

-----------------------------------------------------------------------------
(* The event loop uvicorn runs the route handlers on.                      *)

\* The requests that can be in flight together.
Tasks == {"t1", "t2"}

\* No request in this slot.
Idle == [op |-> "idle", raw |-> None, en |-> FALSE, pc |-> "none", card |-> NoCard]

\* No request in flight; the loop is between callbacks ("none").
IdleLoop == [running |-> "none", tasks |-> [t \in Tasks |-> Idle]]

-----------------------------------------------------------------------------
(* AgentService.register                                                   *)

\* A register that never finds the path in the index.
RegisterIsDuplicateNever(ag, path) == FALSE

\* register, line 103: the duplicate check.
RegisterIsDuplicate(ag, path) == path \in DOMAIN ag

\* register, lines 107-109: some Skill(**skill_data) raises.
SkillsInvalid(request) ==
    \E i \in 1..Len(request.skills) : ~SkillValid(request.skills[i])

\* register, lines 107-109: the parsed skills.
ParseSkills(request) ==
    [i \in 1..Len(request.skills) |-> ParseSkill(request.skills[i])]

\* A register that goes on whatever _save_agent returned.
RegisterAbortsNever(saved) == FALSE

\* register, lines 135-136: register raises when _save_agent returned False.
RegisterAborts(saved) == ~saved

\* register, line 138
RegisterIndex(ag, path, agent) == (path :> agent) @@ ag

\* A register that does not append the path to the enabled list.
RegisterStateNoAppend(st, path) == st

\* register, line 139
RegisterState(st, path) == [st EXCEPT !.enabled = Append(@, path)]

\* W: the outcomes a write can have.
Register(request, W) ==
    IF NormalizeRaises(request.path, request.name)
    THEN /\ last' = Report("register", request.path, None, "InvalidInput", NoCard, "none", "none", "none", FALSE)
         /\ UNCHANGED <<agents, state, files, stateFile, clock>>
    ELSE
    LET path == NormalizePath(request.path, request.name) IN
    IF RegisterIsDuplicate(agents, path)
    THEN /\ last' = Report("register", request.path, path, "DuplicatePath", NoCard, "none", "none", "none", FALSE)
         /\ UNCHANGED <<agents, state, files, stateFile, clock>>
    ELSE IF SkillsInvalid(request)
    THEN /\ last' = Report("register", request.path, path, "InvalidInput", NoCard, "none", "none", "none", FALSE)
         /\ UNCHANGED <<agents, state, files, stateFile, clock>>
    ELSE
    LET agent == NewCard(request, path, ParseSkills(request), clock) IN
    /\ clock < MaxClock
    /\ clock' = clock + 1
    /\ \E wr \in W :
        /\ files' = SaveAgentFiles(files, agent, wr)
        /\ IF RegisterAborts(SaveAgentReturns(wr))
           THEN /\ last' = Report("register", request.path, path, "StorageFailure", NoCard, wr, "none", "none", FALSE)
                /\ UNCHANGED <<agents, state, stateFile>>
           ELSE /\ agents' = RegisterIndex(agents, path, agent)
                /\ state' = RegisterState(state, path)
                /\ \E ws \in W :
                    /\ stateFile' = SaveStateFile(stateFile, state', ws)
                    /\ last' = Report("register", request.path, path, "ok", agent, wr, ws, "none", FALSE)

-----------------------------------------------------------------------------
(* AgentService.update                                                     *)

\* An update that keeps the updated_at its caller supplies.
MergeUpdatesKeepStamp(agent, updates, now) ==
    LET Pick(f) == IF f \in DOMAIN updates THEN updates[f] ELSE agent[f]
    IN  [name          |-> Pick("name"),
         description   |-> Pick("description"),
         path          |-> Pick("path"),
         skills        |-> Pick("skills"),
         tags          |-> Pick("tags"),
         registered_at |-> Pick("registered_at"),
         updated_at    |-> IF "updated_at" \in DOMAIN updates THEN updates.updated_at ELSE now,
         is_enabled    |-> Pick("is_enabled")]

\* update, lines 165-167: dict.update(updates), then updated_at = now.
\* Keys that are no field of AgentCard are ignored by AgentCard(**agent_dict).
MergeUpdates(agent, updates, now) ==
    LET Pick(f) == IF f \in DOMAIN updates THEN updates[f] ELSE agent[f]
    IN  [name          |-> Pick("name"),
         description   |-> Pick("description"),
         path          |-> Pick("path"),
         skills        |-> Pick("skills"),
         tags          |-> Pick("tags"),
         registered_at |-> Pick("registered_at"),
         updated_at    |-> now,
         is_enabled    |-> Pick("is_enabled")]

\* update, line 169: AgentCard(**agent_dict) raises (a required str is None).
CardInvalid(agent_dict) ==
    \/ agent_dict.name = None
    \/ agent_dict.description = None
    \/ agent_dict.path = None

Update(raw, updates, W) ==
    LET path == NormalizePath(raw, None) IN
    IF path \notin DOMAIN agents
    THEN /\ last' = Report("update", raw, path, "NotFound", NoCard, "none", "none", "none", FALSE)
         /\ UNCHANGED <<agents, state, files, stateFile, clock>>
    ELSE
    LET updated == MergeUpdates(agents[path], updates, clock) IN
    /\ clock < MaxClock
    /\ clock' = clock + 1
    /\ IF CardInvalid(updated)
       THEN /\ last' = Report("update", raw, path, "InvalidInput", NoCard, "none", "none", "none", FALSE)
            /\ UNCHANGED <<agents, state, files, stateFile>>
       ELSE \E wr \in W :
            /\ files' = SaveAgentFiles(files, updated, wr)
            /\ agents' = (path :> updated) @@ agents
            /\ last' = Report("update", raw, path, "ok", updated, wr, "none", "none", FALSE)
            /\ UNCHANGED <<state, stateFile>>

-----------------------------------------------------------------------------
(* AgentService.delete                                                     *)

\* delete, lines 191-194
DeleteState(st, path) ==
    LET e == IF InList(path, st.enabled) THEN RemoveFirst(st.enabled, path) ELSE st.enabled
        d == IF InList(path, st.disabled) THEN RemoveFirst(st.disabled, path) ELSE st.disabled
    IN  [enabled |-> e, disabled |-> d]

\* delete, line 188
DeleteIndex(ag, path) == [p \in DOMAIN ag \ {path} |-> ag[p]]

\* U: the outcomes unlink() can have.
Delete(raw, W, U) ==
    LET path == NormalizePath(raw, None)
        filename == PathToFilename(path)
    IN
    IF path \notin DOMAIN agents
    THEN /\ last' = Report("delete", raw, path, "False", NoCard, "none", "none", "none", FALSE)
         /\ UNCHANGED <<agents, state, files, stateFile, clock>>
    ELSE
    \E ul \in (IF filename \in DOMAIN files THEN U ELSE {"none"}) :
        IF ul = "fail"
        THEN \* unlink() raises OSError, which delete does not catch
             /\ last' = Report("delete", raw, path, "OSError", NoCard, "none", "none", ul, FALSE)
             /\ UNCHANGED <<agents, state, files, stateFile, clock>>
        ELSE /\ files' = [f \in DOMAIN files \ {filename} |-> files[f]]
             /\ agents' = DeleteIndex(agents, path)
             /\ state' = DeleteState(state, path)
             /\ \E ws \in W :
                 /\ stateFile' = SaveStateFile(stateFile, state', ws)
                 /\ last' = Report("delete", raw, path, "True", NoCard, "none", ws, ul, FALSE)
             /\ UNCHANGED clock

-----------------------------------------------------------------------------
(* AgentService.toggle                                                     *)

\* toggle, lines 205-214
ToggleState(st, path, enabled) ==
    IF enabled
    THEN LET d == IF InList(path, st.disabled) THEN RemoveFirst(st.disabled, path) ELSE st.disabled
             e == IF ~InList(path, st.enabled) THEN Append(st.enabled, path) ELSE st.enabled
         IN  [enabled |-> e, disabled |-> d]
    ELSE LET e == IF InList(path, st.enabled) THEN RemoveFirst(st.enabled, path) ELSE st.enabled
             d == IF ~InList(path, st.disabled) THEN Append(st.disabled, path) ELSE st.disabled
         IN  [enabled |-> e, disabled |-> d]

\* A toggle that takes every path for a known one.
ToggleUnknownNever(ag, path) == FALSE

\* toggle, line 202: the path is not in the index.
ToggleUnknown(ag, path) == path \notin DOMAIN ag

Toggle(raw, enabled, W) ==
    LET path == NormalizePath(raw, None) IN
    IF ToggleUnknown(agents, path)
    THEN /\ last' = Report("toggle", raw, path, "False", NoCard, "none", "none", "none", enabled)
         /\ UNCHANGED <<agents, state, files, stateFile, clock>>
    ELSE /\ state' = ToggleState(state, path, enabled)
         /\ \E ws \in W :
             /\ stateFile' = SaveStateFile(stateFile, state', ws)
             /\ last' = Report("toggle", raw, path, "True", NoCard, "none", ws, "none", enabled)
         /\ UNCHANGED <<agents, files, clock>>

-----------------------------------------------------------------------------
(* A restart of the service: AgentService.__init__, then initialize().     *)

Restart ==
    LET loaded == LoadAgents(files)
        st     == LoadStateFile(stateFile, EmptyState)
    IN  /\ agents' = loaded
        /\ loop' = IdleLoop
        /\ IF LoadStateRaises(loaded, st)
           THEN /\ state' = st
                /\ last' = Report("restart", None, None, "KeyError", NoCard, "none", "none", "none", FALSE)
           ELSE /\ \E order \in Orderings(NewPaths(loaded, st)) : state' = Reconcile(st, order)
                /\ last' = Report("restart", None, None, "ok", NoCard, "none", "none", "none", FALSE)
        /\ UNCHANGED <<files, stateFile, clock>>

-----------------------------------------------------------------------------
(* The registry with I/O failures and restarts.                            *)

\* The paths callers pass: "a" and "/b/".
RawPaths == {<<"a">>, <<"/", "b", "/">>}

GoodSkill == [id |-> <<"s">>, name |-> <<"S">>, description |-> <<"x">>]
BadSkill  == [id |-> <<"s">>]

Request(path, name, skills) ==
    [path |-> path, name |-> name, description |-> <<"x">>, skills |-> skills, tags |-> <<>>]

\* The registration requests callers send.
Requests ==
    {Request(p, <<"A">>, <<>>) : p \in RawPaths \cup {None}}
        \cup {Request(None, <<>>, <<>>), Request(<<"/", "b">>, <<"B">>, <<GoodSkill, BadSkill>>)}

\* The partial updates callers send.
Patches ==
    {[description |-> <<"y">>], [name |-> None]}

\* The state after construction and initialize() on an empty data directory.
Init ==
    /\ agents = <<>>
    /\ state = EmptyState
    /\ files = <<>>
    /\ stateFile = Missing
    /\ clock = 0
    /\ last = Report("init", None, None, "ok", NoCard, "none", "none", "none", FALSE)
    /\ loop = IdleLoop

RegisterCall == UNCHANGED loop /\ \E r \in Requests : Register(r, WriteOutcomes)
UpdateCall   == UNCHANGED loop /\ \E p \in RawPaths, u \in Patches : Update(p, u, WriteOutcomes)
DeleteCall   == UNCHANGED loop /\ \E p \in RawPaths : Delete(p, WriteOutcomes, UnlinkOutcomes)
ToggleCall   == UNCHANGED loop /\ \E p \in RawPaths, e \in BOOLEAN : Toggle(p, e, WriteOutcomes)

Next == RegisterCall \/ UpdateCall \/ DeleteCall \/ ToggleCall \/ Restart

Spec == Init /\ [][Next]_vars

-----------------------------------------------------------------------------
(* The registry where no I/O fails and the service is not restarted, on a  *)
(* wider set of inputs.                                                    *)

\* The paths callers pass: "a", "/a/", "/b/" and "//".
RawPathsWide == RawPaths \cup {<<"/", "a">>, <<"/", "a", "/">>, <<"/", "/">>}

RequestsWide ==
    Requests \cup {Request(p, <<"A">>, <<>>) : p \in RawPathsWide}

PatchesWide ==
    Patches \cup {[path |-> <<"/", "b">>], [is_enabled |-> FALSE],
                  [description |-> <<"y">>, updated_at |-> 0]}

RegisterReliable == UNCHANGED loop /\ \E r \in RequestsWide : Register(r, {"ok"})
UpdateReliable   == UNCHANGED loop /\ \E p \in RawPathsWide, u \in PatchesWide : Update(p, u, {"ok"})
DeleteReliable   == UNCHANGED loop /\ \E p \in RawPathsWide : Delete(p, {"ok"}, {"ok"})
ToggleReliable   == UNCHANGED loop /\ \E p \in RawPathsWide, e \in BOOLEAN : Toggle(p, e, {"ok"})

NextReliable == RegisterReliable \/ UpdateReliable \/ DeleteReliable \/ ToggleReliable

SpecReliable == Init /\ [][NextReliable]_vars

-----------------------------------------------------------------------------
(* The path normalizer on its own: every string of at most MaxLen          *)
(* characters, as a path and as an agent name.                             *)

Alphabet == {"/", "a", "A", " "}

\* The strings over Alphabet of length at most n.
Strings(n) == UNION {[1..k -> Alphabet] : k \in 0..n}

InitNorm ==
    /\ agents = <<>>
    /\ state = EmptyState
    /\ files = <<>>
    /\ stateFile = Missing
    /\ clock = 0
    /\ loop = IdleLoop
    /\ \E x \in Strings(MaxLen) :
        last = Report("input", x, None, "ok", NoCard, "none", "none", "none", FALSE)

\* _normalize_path(path)
NormalizeCall ==
    /\ last.op = "input"
    /\ last' = Report("normalize", last.arg, NormalizePath(last.arg, None), "ok",
                      NoCard, "none", "none", "none", FALSE)
    /\ UNCHANGED <<agents, state, files, stateFile, clock, loop>>

\* _normalize_path(None, agent_name)
NormalizeNameCall ==
    /\ last.op = "input"
    /\ last' = IF NormalizeRaises(None, last.arg)
               THEN Report("normalize_name", last.arg, None, "InvalidInput",
                           NoCard, "none", "none", "none", FALSE)
               ELSE Report("normalize_name", last.arg, NormalizePath(None, last.arg), "ok",
                           NoCard, "none", "none", "none", FALSE)
    /\ UNCHANGED <<agents, state, files, stateFile, clock, loop>>

NextNorm == NormalizeCall \/ NormalizeNameCall

SpecNorm == InitNorm /\ [][NextNorm]_vars

-----------------------------------------------------------------------------
(* Startup on a data directory the service finds: record files present,    *)
(* absent or truncated, and a state.json that is absent, truncated, or a   *)
(* JSON object with the keys "enabled" and "disabled" or only one of them. *)

KnownPaths == {<<"/", "a">>, <<"/", "b">>}

\* The record file register writes for a path.
RecordOf(path) == Json(NewCard(Request(path, <<"A">>, <<>>), path, <<>>, 1))

\* A record file that parses and lacks the required name.
InvalidRecordOf(path) == Json([path |-> path, description |-> <<"x">>])

\* What the record file of a path can hold.
RecordContents(path) == {RecordOf(path), Garbage, InvalidRecordOf(path)}

\* The *_agent.json files of a data directory.
RecordFiles ==
    UNION {{f \in [{PathToFilename(p) : p \in S} -> UNION {RecordContents(p) : p \in S}] :
                \A p \in S : f[PathToFilename(p)] \in RecordContents(p)}
           : S \in SUBSET KnownPaths}

PathLists == UNION {[1..k -> KnownPaths] : k \in 0..MaxListLen}

\* The JSON objects of a state.json.
StateObjects ==
    [enabled : PathLists, disabled : PathLists]
        \cup [enabled : PathLists] \cup [disabled : PathLists]

InitLoad ==
    /\ agents = <<>>
    /\ state = EmptyState
    /\ files \in RecordFiles
    /\ stateFile \in {Missing, Garbage} \cup {Json(d) : d \in StateObjects}
    /\ clock = 0
    /\ last = Report("init", None, None, "ok", NoCard, "none", "none", "none", FALSE)
    /\ loop = IdleLoop

NextLoad == Restart

SpecLoad == InitLoad /\ [][NextLoad]_vars

\* Startup on a data directory whose state.json the service wrote (or is
\* absent or truncated), with record files of any content.
InitLoadRecords ==
    /\ InitLoad
    /\ stateFile.kind = "json" => DOMAIN stateFile.data = {"enabled", "disabled"}

SpecLoadRecords == InitLoadRecords /\ [][NextLoad]_vars

-----------------------------------------------------------------------------
(* Requests arriving concurrently. Every route is an `async def` that      *)
(* calls the registry synchronously, so a handler keeps the event loop     *)
(* from its first line to its next `await` or its return. The handlers     *)
(* are split at their statements on the index and the lists; no write      *)
(* fails and the service is not restarted.                                 *)

Mutations == {"register", "update", "delete", "toggle"}
Reads     == {"get", "list", "discover"}

\* A handler gives the loop back when it returns and at the awaits of
\* discover (mcp_client.search, ollama_service.discover_models).
Suspended(task) == task.op = "idle" \/ task.pc \in {"mcp", "ollama"}

\* Handlers that can be preempted after any statement.
YieldsAnywhere(task) == TRUE

\* The handler yields the loop in this position.
Yields(task) == Suspended(task)

\* The loop can run the next statement of t: no other handler holds it.
Runnable(t) == loop.running \in {"none", t}

\* t's handler moved to `task`.
Advance(t, task) ==
    [running |-> IF Yields(task) THEN "none" ELSE t,
     tasks   |-> [loop.tasks EXCEPT ![t] = task]]

\* Requests in flight that will read datetime.now().
PendingStamps ==
    Cardinality({t \in Tasks : loop.tasks[t].op \in {"register", "update"}
                               /\ loop.tasks[t].pc = "start"})

\* A request arrives and its handler is scheduled.
Accept(t) ==
    /\ loop.tasks[t] = Idle
    /\ \E op \in Mutations \cup Reads, p \in RawPaths, e \in BOOLEAN :
        /\ op \in {"register", "update"} => clock + PendingStamps < MaxClock
        /\ op \notin {"toggle", "list"} => e = FALSE
        /\ op \in {"list", "discover"} => p = <<"a">>
        /\ loop' = [loop EXCEPT !.tasks[t] =
                       [op |-> op, raw |-> p, en |-> e, pc |-> "start", card |-> NoCard]]
    /\ UNCHANGED <<agents, state, files, stateFile, clock, last>>

\* register_agent -> AgentService.register
RegisterStep(t) ==
    LET task    == loop.tasks[t]
        request == Request(task.raw, <<"A">>, <<>>)
        path    == NormalizePath(request.path, request.name)
    IN
    /\ task.op = "register" /\ Runnable(t)
    /\ CASE task.pc = "start" ->
              IF RegisterIsDuplicate(agents, path)
              THEN /\ last' = Report("register", task.raw, path, "DuplicatePath", NoCard, "none", "none", "none", FALSE)
                   /\ loop' = Advance(t, Idle)
                   /\ UNCHANGED <<agents, state, files, stateFile, clock>>
              ELSE LET agent == NewCard(request, path, ParseSkills(request), clock) IN
                   /\ clock' = clock + 1
                   /\ files' = SaveAgentFiles(files, agent, "ok")
                   /\ loop' = Advance(t, [task EXCEPT !.pc = "index", !.card = agent])
                   /\ UNCHANGED <<agents, state, stateFile, last>>
         [] task.pc = "index" ->
              /\ agents' = RegisterIndex(agents, path, task.card)
              /\ loop' = Advance(t, [task EXCEPT !.pc = "lists"])
              /\ UNCHANGED <<state, files, stateFile, clock, last>>
         [] task.pc = "lists" ->
              /\ state' = RegisterState(state, path)
              /\ loop' = Advance(t, [task EXCEPT !.pc = "save"])
              /\ UNCHANGED <<agents, files, stateFile, clock, last>>
         [] task.pc = "save" ->
              /\ stateFile' = SaveStateFile(stateFile, state, "ok")
              /\ last' = Report("register", task.raw, path, "ok", task.card, "ok", "ok", "none", FALSE)
              /\ loop' = Advance(t, Idle)
              /\ UNCHANGED <<agents, state, files, clock>>

\* update_agent -> AgentService.update
UpdateStep(t) ==
    LET task == loop.tasks[t]
        path == NormalizePath(task.raw, None)
    IN
    /\ task.op = "update" /\ Runnable(t)
    /\ CASE task.pc = "start" ->
              IF path \notin DOMAIN agents
              THEN /\ last' = Report("update", task.raw, path, "NotFound", NoCard, "none", "none", "none", FALSE)
                   /\ loop' = Advance(t, Idle)
                   /\ UNCHANGED <<agents, state, files, stateFile, clock>>
              ELSE LET updated == MergeUpdates(agents[path], [description |-> <<"y">>], clock) IN
                   /\ clock' = clock + 1
                   /\ files' = SaveAgentFiles(files, updated, "ok")
                   /\ loop' = Advance(t, [task EXCEPT !.pc = "index", !.card = updated])
                   /\ UNCHANGED <<agents, state, stateFile, last>>
         [] task.pc = "index" ->
              /\ agents' = (path :> task.card) @@ agents
              /\ last' = Report("update", task.raw, path, "ok", task.card, "ok", "none", "none", FALSE)
              /\ loop' = Advance(t, Idle)
              /\ UNCHANGED <<state, files, stateFile, clock>>

\* delete_agent -> AgentService.delete
DeleteStep(t) ==
    LET task     == loop.tasks[t]
        path     == NormalizePath(task.raw, None)
        filename == PathToFilename(path)
    IN
    /\ task.op = "delete" /\ Runnable(t)
    /\ CASE task.pc = "start" ->
              IF path \notin DOMAIN agents
              THEN /\ last' = Report("delete", task.raw, path, "False", NoCard, "none", "none", "none", FALSE)
                   /\ loop' = Advance(t, Idle)
                   /\ UNCHANGED <<agents, state, files, stateFile, clock>>
              ELSE /\ files' = [f \in DOMAIN files \ {filename} |-> files[f]]
                   /\ loop' = Advance(t, [task EXCEPT !.pc = "index"])
                   /\ UNCHANGED <<agents, state, stateFile, clock, last>>
         [] task.pc = "index" ->
              /\ agents' = DeleteIndex(agents, path)
              /\ loop' = Advance(t, [task EXCEPT !.pc = "lists"])
              /\ UNCHANGED <<state, files, stateFile, clock, last>>
         [] task.pc = "lists" ->
              /\ state' = DeleteState(state, path)
              /\ loop' = Advance(t, [task EXCEPT !.pc = "save"])
              /\ UNCHANGED <<agents, files, stateFile, clock, last>>
         [] task.pc = "save" ->
              /\ stateFile' = SaveStateFile(stateFile, state, "ok")
              /\ last' = Report("delete", task.raw, path, "True", NoCard, "none", "ok", "ok", FALSE)
              /\ loop' = Advance(t, Idle)
              /\ UNCHANGED <<agents, state, files, clock>>

\* toggle_agent -> AgentService.toggle
ToggleStep(t) ==
    LET task == loop.tasks[t]
        path == NormalizePath(task.raw, None)
    IN
    /\ task.op = "toggle" /\ Runnable(t)
    /\ CASE task.pc = "start" ->
              IF ToggleUnknown(agents, path)
              THEN /\ last' = Report("toggle", task.raw, path, "False", NoCard, "none", "none", "none", task.en)
                   /\ loop' = Advance(t, Idle)
                   /\ UNCHANGED <<agents, state, files, stateFile, clock>>
              ELSE /\ state' = ToggleState(state, path, task.en)
                   /\ loop' = Advance(t, [task EXCEPT !.pc = "save"])
                   /\ UNCHANGED <<agents, files, stateFile, clock, last>>
         [] task.pc = "save" ->
              /\ stateFile' = SaveStateFile(stateFile, state, "ok")
              /\ last' = Report("toggle", task.raw, path, "True", NoCard, "none", "ok", "none", task.en)
              /\ loop' = Advance(t, Idle)
              /\ UNCHANGED <<agents, state, files, clock>>

\* get_agent -> AgentService.get
GetStep(t) ==
    LET task == loop.tasks[t]
        path == NormalizePath(task.raw, None)
    IN
    /\ task.op = "get" /\ Runnable(t)
    /\ last' = Report("get", task.raw, path, IF Get(task.raw) = NoCard THEN "NotFound" ELSE "ok",
                      Get(task.raw), "none", "none", "none", FALSE)
    /\ loop' = Advance(t, Idle)
    /\ UNCHANGED <<agents, state, files, stateFile, clock>>

\* list_agents -> AgentService.list_agents(enabled_only)
ListStep(t) ==
    LET task == loop.tasks[t] IN
    /\ task.op = "list" /\ Runnable(t)
    /\ last' = Report("list", None, None, IF ListAgents(task.en) = {} THEN "empty" ELSE "ok",
                      NoCard, "none", "none", "none", task.en)
    /\ loop' = Advance(t, Idle)
    /\ UNCHANGED <<agents, state, files, stateFile, clock>>

\* discover: list_agents(enabled_only=True), then the awaits of the MCP
\* search and of the model discovery, each made or skipped by the query.
DiscoverStep(t) ==
    LET task == loop.tasks[t] IN
    /\ task.op = "discover" /\ Runnable(t)
    /\ CASE task.pc = "start" ->
              /\ last' = Report("discover", None, None, IF ListAgents(TRUE) = {} THEN "empty" ELSE "ok",
                                NoCard, "none", "none", "none", TRUE)
              /\ \E next \in {"mcp", "ollama", "return"} :
                    loop' = Advance(t, IF next = "return" THEN Idle ELSE [task EXCEPT !.pc = next])
         [] task.pc = "mcp" ->
              /\ \E next \in {"ollama", "return"} :
                    loop' = Advance(t, IF next = "return" THEN Idle ELSE [task EXCEPT !.pc = next])
              /\ UNCHANGED last
         [] task.pc = "ollama" ->
              /\ loop' = Advance(t, Idle)
              /\ UNCHANGED last
    /\ UNCHANGED <<agents, state, files, stateFile, clock>>

\* The statement a read handler reads the registry with.
ReadStep(t) ==
    GetStep(t) \/ ListStep(t) \/ (DiscoverStep(t) /\ loop.tasks[t].pc = "start")

NextConcurrent ==
    \E t \in Tasks :
        \/ Accept(t)
        \/ RegisterStep(t)
        \/ UpdateStep(t)
        \/ DeleteStep(t)
        \/ ToggleStep(t)
        \/ GetStep(t)
        \/ ListStep(t)
        \/ DiscoverStep(t)

SpecConcurrent == Init /\ [][NextConcurrent]_vars

-----------------------------------------------------------------------------
(* Discovery: the agents of the registry, the MCP registry search and the  *)
(* Ollama model discovery, merged into one response.                       *)

\* AgentService.to_info(agent) (the fields the model keeps)
ToInfo(agent) ==
    [name       |-> agent.name,
     description |-> agent.description,
     path       |-> agent.path,
     tags       |-> agent.tags,
     skills     |-> [i \in 1..Len(agent.skills) |-> agent.skills[i].name],
     num_skills |-> Len(agent.skills),
     is_enabled |-> IsEnabled(agent.path)]

\* discover, line 225: f"{agent.name} {agent.description} {' '.join(agent.tags)}"
Searchable(agent) ==
    agent.name \o <<" ">> \o agent.description \o <<" ">> \o Join(agent.tags, " ")

\* discover, line 226
SkillNames(agent) == [i \in 1..Len(agent.skills) |-> Lower(agent.skills[i].name)]

\* A query match that compares the text as typed.
MatchesQueryCaseSensitive(agent, query) ==
    Contains(Searchable(agent), query.query)

\* discover, lines 222 and 229
MatchesQuery(agent, query) ==
    Contains(Lower(Searchable(agent)), Lower(query.query))

\* discover, line 230
MatchesSkills(agent, query) ==
    \E i \in 1..Len(query.skills) : InList(Lower(query.skills[i]), SkillNames(agent))

\* discover, lines 221-234: the summaries appended to results["agents"].
DiscoverAgents(query) ==
    {ToInfo(agents[k]) :
        k \in {a \in ListAgents(TRUE) :
                 \/ MatchesQuery(agents[a], query)
                 \/ MatchesSkills(agents[a], query)
                 \/ query.query = <<>>}}

\* mcp_client.py line 26: timeout=30.0
McpTimeoutSeconds == 30

\* The timeouts a client was built with: <<seconds>>, or <<>> for none.
McpTimeout == <<McpTimeoutSeconds>>

\* ollama_service.py line 20: AsyncClient(host=...) is given no timeout.
OllamaTimeout == <<>>

\* What awaiting a collaborator can end in: an answer, an exception, and
\* either the client's timeout exception or, without one, no end at all.
AwaitOutcomes(timeout) ==
    {"answer", "error"} \cup (IF timeout = <<>> THEN {"hang"} ELSE {"timeout"})

\* The JSON bodies the MCP registry answers a search with.
McpBodies == {[results |-> <<>>], [results |-> <<<<"s", "r", "v">>>>], [detail |-> <<>>]}

\* A search that hands on the body of a failed call.
McpSearchKeepsFailed(outcome, body) ==
    IF "results" \in DOMAIN body THEN body.results ELSE <<>>

\* MCPRegistryClient.search: data.get("results", []), [] on any exception
\* (raise_for_status on an error response, a timeout of the client).
McpSearch(outcome, body) ==
    IF outcome = "answer" /\ "results" \in DOMAIN body THEN body.results ELSE <<>>

\* The model names Ollama lists.
OllamaLists == {<<>>, <<<<"m">>, <<>>>>}

\* OllamaService.discover_models: a config per model with a name,
\* [] on any exception.
DiscoverModels(outcome, names) ==
    IF outcome = "answer"
    THEN LET Named(n) == n # <<>>
             kept == SelectSeq(names, Named)
         IN  [i \in 1..Len(kept) |-> [name |-> kept[i], model_id |-> kept[i]]]
    ELSE <<>>

\* A discover that searches the MCP registry whatever the query asks.
WantsMcpAlways(query) == TRUE

\* discover, line 237
WantsMcp(query) == ~query.require_local

\* discover, line 245
WantsModels(query) ==
    \/ query.require_local
    \/ Contains(Lower(query.query), <<"l", "o", "c", "a", "l">>)
    \/ Contains(Lower(query.query), <<"o", "l", "l", "a", "m", "a">>)

\* The discover request in flight: its query, its results so far, and how
\* each collaborator call ended ("not_called": it was not made).
Discovering(query, results, pc) ==
    [op |-> "discover", raw |-> None, en |-> query.require_local, pc |-> pc, card |-> NoCard,
     query |-> query, results |-> results]

\* discover returns `results`.
DiscoverReturns(t, query, results) ==
    /\ loop' = [loop EXCEPT !.tasks[t] = Idle]
    /\ last' = Report("discover", query.query, None, "ok", results, "none", "none", "none",
                      query.require_local)

\* discover goes on after the MCP registry search: to the model discovery
\* or to its return.
AfterMcp(t, query, results) ==
    IF WantsModels(query)
    THEN /\ loop' = [loop EXCEPT !.tasks[t] = Discovering(query, results, "ollama")]
         /\ UNCHANGED last
    ELSE DiscoverReturns(t, query, results)

\* discover, lines 213-237: up to its first await, or to its return.
DiscoverBegin(t, query) ==
    LET results == [agents |-> DiscoverAgents(query), mcp_servers |-> <<>>, local_models |-> <<>>,
                    mcp |-> "not_called", ollama |-> "not_called", query |-> query]
    IN  /\ loop.tasks[t] = Idle
        /\ IF WantsMcp(query)
           THEN /\ loop' = [loop EXCEPT !.tasks[t] = Discovering(query, results, "mcp")]
                /\ UNCHANGED last
           ELSE AfterMcp(t, query, results)
        /\ UNCHANGED <<agents, state, files, stateFile, clock>>

\* discover, lines 238-242: mcp_client.search ends.
McpAnswer(t) ==
    LET task == loop.tasks[t] IN
    /\ task.op = "discover" /\ task.pc = "mcp"
    /\ \E outcome \in AwaitOutcomes(McpTimeout), body \in McpBodies :
        /\ outcome = "timeout" => body = [detail |-> <<>>]
        /\ AfterMcp(t, task.query,
                    [task.results EXCEPT !.mcp_servers = McpSearch(outcome, body), !.mcp = outcome])
    /\ UNCHANGED <<agents, state, files, stateFile, clock>>

\* discover, lines 245-249: ollama_service.discover_models ends, or never does.
OllamaAnswer(t) ==
    LET task == loop.tasks[t] IN
    /\ task.op = "discover" /\ task.pc = "ollama"
    /\ \E outcome \in AwaitOutcomes(OllamaTimeout), names \in OllamaLists :
        /\ outcome # "answer" => names = <<>>
        /\ IF outcome = "hang"
           THEN /\ loop' = [loop EXCEPT !.tasks[t] =
                               Discovering(task.query, [task.results EXCEPT !.ollama = outcome], "hung")]
                /\ UNCHANGED last
           ELSE DiscoverReturns(t, task.query,
                    [task.results EXCEPT !.local_models = DiscoverModels(outcome, names),
                                         !.ollama = outcome])
    /\ UNCHANGED <<agents, state, files, stateFile, clock>>

\* The registration requests the discovery runs against.
DiscoverRequests ==
    {[path |-> <<"/", "a">>, name |-> <<"A", "b">>, description |-> <<"x">>,
      skills |-> <<GoodSkill>>, tags |-> <<" ", "T", ",">>],
     [path |-> <<"/", "b">>, name |-> <<"B">>, description |-> <<"y">>,
      skills |-> <<>>, tags |-> <<>>]}

QueryTexts ==
    {<<>>, <<"B">>, <<"b", " ", "x">>, <<"t">>, <<"z">>, <<"l", "o", "c", "A", "l">>}

\* The DiscoveryQuery bodies callers send.
Queries ==
    [query : QueryTexts, skills : {<<>>, <<<<"S">>>>}, require_local : BOOLEAN]

RegisterForDiscover == UNCHANGED loop /\ \E r \in DiscoverRequests : Register(r, {"ok"})
ToggleForDiscover   == UNCHANGED loop /\ \E p \in {<<"a">>, <<"b">>}, e \in BOOLEAN : Toggle(p, e, {"ok"})
DiscoverCall        == \E q \in Queries : DiscoverBegin("t1", q)
McpReply            == McpAnswer("t1")
OllamaReply         == OllamaAnswer("t1")

NextDiscover ==
    RegisterForDiscover \/ ToggleForDiscover \/ DiscoverCall \/ McpReply \/ OllamaReply

SpecDiscover == Init /\ [][NextDiscover]_vars

\* The event loop runs a handler whose await has ended; an await under a
\* client timeout ends.
FairSpecDiscover ==
    SpecDiscover /\ WF_vars(McpReply) /\ WF_vars(OllamaReply)

-----------------------------------------------------------------------------
(* The registry where no I/O fails, with restarts, on paths that contain a *)
(* "/" or a "_" after the first character.                                 *)

\* The paths callers pass: "/a/b", "/a_b" and "/c".
RawPathsNested == {<<"/", "a", "/", "b">>, <<"/", "a", "_", "b">>, <<"/", "c">>}

RequestsNested == {Request(p, n, <<>>) : p \in RawPathsNested, n \in {<<"A">>, <<"B">>}}

RegisterNested == UNCHANGED loop /\ \E r \in RequestsNested : Register(r, {"ok"})
DeleteNested   == UNCHANGED loop /\ \E p \in RawPathsNested : Delete(p, {"ok"}, {"ok"})

NextNested == RegisterNested \/ DeleteNested \/ Restart

SpecNested == Init /\ [][NextNested]_vars

-----------------------------------------------------------------------------
(* The registry where the process can stop after any statement of register *)
(* or delete and is then started again. One request is handled at a time   *)
(* and no write fails.                                                     *)

\* A register or delete request arrives.
AcceptMutation ==
    /\ loop.tasks["t1"] = Idle
    /\ \E op \in {"register", "delete"}, p \in RawPaths :
        /\ op = "register" => clock < MaxClock
        /\ loop' = [loop EXCEPT !.tasks["t1"] =
                       [op |-> op, raw |-> p, en |-> FALSE, pc |-> "start", card |-> NoCard]]
    /\ UNCHANGED <<agents, state, files, stateFile, clock, last>>

RegisterStatement == RegisterStep("t1")
DeleteStatement   == DeleteStep("t1")

\* The process stops where it is, and the service is started again.
StopAndRestart == Restart

NextCrash == AcceptMutation \/ RegisterStatement \/ DeleteStatement \/ StopAndRestart

SpecCrash == Init /\ [][NextCrash]_vars

-----------------------------------------------------------------------------
(* Properties of the registry.                                             *)

\* The paths in the enabled or the disabled list.
Listed == Elems(state.enabled) \cup Elems(state.disabled)

\* path is in exactly one of the two lists.
InExactlyOneList(path) ==
    InList(path, state.enabled) # InList(path, state.disabled)

\* The registry invariant: the index and the two lists agree on the paths.
IndexAndListsAgree ==
    /\ \A p \in DOMAIN agents : InExactlyOneList(p)
    /\ Listed \subseteq DOMAIN agents

\* The call `last` reports wrote, or tried to write, and the write failed.
WriteFailed(outcome) == outcome \in {"fail_open", "fail_partial"}

\* C1: starting from an empty data directory, with no I/O failure and no
\* restart, after any sequence of register, update, delete and toggle every
\* indexed path is in exactly one of the enabled/disabled lists and every
\* listed path is indexed.
C1_IndexAndListsAgree == IndexAndListsAgree

\* C1: a delete has succeeded and left an indexed path that a toggle disabled.
C1_Witness ==
    /\ last.op = "delete" /\ last.res = "True"
    /\ \E p \in DOMAIN agents : InList(p, state.disabled)

\* C2: in every reachable state, write failures and restarts included, no
\* path occurs twice in one list and no path occurs in both lists.
C2_ListsAreSets ==
    \A p \in Listed :
        /\ Count(state.enabled, p) <= 1
        /\ Count(state.disabled, p) <= 1
        /\ ~(InList(p, state.enabled) /\ InList(p, state.disabled))

\* C3: immediately after initialize() the lists hold only paths of loaded
\* records and every loaded record's path is in exactly one list.
C3_ReconciledAfterInitialize ==
    last.op = "restart" => IndexAndListsAgree

\* C4: when update's record-file write fails, update reports a storage
\* failure and the in-memory index is left as it was.
C4_UpdateAbortsOnWriteFailure ==
    [][(last'.op = "update" /\ WriteFailed(last'.wr))
          => (last'.res = "StorageFailure" /\ agents' = agents)]_vars

\* C5: when register's record-file write fails, register reports a failure,
\* the path is added neither to the index nor to a list, and state.json is
\* not rewritten.
C5_RegisterAbortsOnWriteFailure ==
    [][(last'.op = "register" /\ WriteFailed(last'.wr))
          => /\ last'.res = "StorageFailure"
             /\ last'.ws = "none"
             /\ agents' = agents
             /\ state' = state
             /\ stateFile' = stateFile]_vars

\* C5: a register whose record-file write failed, on a registry that holds
\* another record.
C5_Witness ==
    /\ last.op = "register" /\ WriteFailed(last.wr)
    /\ agents # <<>>
    /\ last.path \notin DOMAIN agents

\* C6: when delete targets a known path and the removal of its record file
\* fails, the path is still removed from the index and from the lists.
C6_DeleteForwardOnly ==
    (last.op = "delete" /\ last.ul = "fail")
        => (last.path \notin DOMAIN agents /\ last.path \notin Listed)

\* A mutating call that reported success.
ReportsSuccess(r) ==
    /\ r.op \in {"register", "update", "delete", "toggle"}
    /\ r.res \in {"ok", "True"}

\* The record the index holds at path, if any.
IndexAt(ag, path) == IF path \in DOMAIN ag THEN ag[path] ELSE NoCard

\* C7: a mutating call that reports success is persisted (a restart right
\* after it leaves the index entry and the enabled status of its path as they
\* were), and a call whose persistence failed reports failure and changes
\* neither the index nor the lists.
C7_SuccessIsDurable ==
    [][/\ (ReportsSuccess(last) /\ last'.op = "restart")
           => /\ IndexAt(agents', last.path) = IndexAt(agents, last.path)
              /\ InList(last.path, state'.enabled) = InList(last.path, state.enabled)
              /\ InList(last.path, state'.disabled) = InList(last.path, state.disabled)
       /\ (/\ last'.op \in {"register", "update", "delete", "toggle"}
           /\ (WriteFailed(last'.wr) \/ WriteFailed(last'.ws) \/ last'.ul = "fail"))
           => (~ReportsSuccess(last') /\ agents' = agents /\ state' = state)]_vars

\* C8: a successful register returns a record whose path is the normalised
\* path; get on that path returns the same record; the path is in the
\* enabled list; is_enabled is true and registered_at = updated_at.
C8_RegisterThenGet ==
    (last.op = "register" /\ last.res = "ok")
        => /\ last.ret.path = last.path
           /\ Get(last.ret.path) = last.ret
           /\ InList(last.ret.path, state.enabled)
           /\ last.ret.is_enabled
           /\ last.ret.registered_at = last.ret.updated_at

\* C9: register on a path the index holds reports a duplicate path before
\* any I/O, and leaves the index, the lists, the record files and state.json
\* as they were.
C9_DuplicateRegisterChangesNothing ==
    [][(last'.op = "register" /\ last'.path \in DOMAIN agents)
          => /\ last'.res = "DuplicatePath"
             /\ last'.wr = "none" /\ last'.ws = "none"
             /\ UNCHANGED <<agents, state, files, stateFile>>]_vars

\* C9: a register that names a path was refused as a duplicate of an indexed
\* record.
C9_Witness ==
    /\ last.op = "register" /\ last.res = "DuplicatePath"
    /\ last.arg # None
    /\ last.path \in DOMAIN agents

\* C10: after toggle(path, false) returns true, is_enabled(path) is false and
\* list_agents(enabled_only=True) excludes the record; after
\* toggle(path, true), is_enabled(path) is true and the record is listed.
C10_ToggleTakesEffect ==
    (last.op = "toggle" /\ last.res = "True")
        => /\ IsEnabled(last.arg) = last.en
           /\ (last.path \in ListAgents(TRUE)) = last.en

\* The fields of an AgentCard the model keeps.
CardFields ==
    {"name", "description", "path", "skills", "tags", "registered_at", "updated_at", "is_enabled"}

\* Every index entry but the one at path is the same in ag1 and ag2.
OthersUnchanged(ag1, ag2, path) ==
    /\ DOMAIN ag1 \ {path} = DOMAIN ag2 \ {path}
    /\ \A q \in DOMAIN ag1 \ {path} : ag1[q] = ag2[q]

\* The enabled/disabled status of every path but `path` is the same in st1
\* and st2.
OtherStatusUnchanged(st1, st2, path) ==
    \A q \in (Elems(st1.enabled) \cup Elems(st1.disabled)
                \cup Elems(st2.enabled) \cup Elems(st2.disabled)) \ {path} :
        /\ InList(q, st1.enabled) = InList(q, st2.enabled)
        /\ InList(q, st1.disabled) = InList(q, st2.disabled)

\* C11: delete on a known path returns true; afterwards the path is not in
\* the index (get returns none, list excludes it), is in neither list and its
\* record file is gone; every other record and its status is unchanged.
C11_DeleteRemovesEverywhere ==
    [][(last'.op = "delete" /\ last'.path \in DOMAIN agents)
          => /\ last'.res = "True"
             /\ last'.path \notin DOMAIN agents'
             /\ NormalizePath(last'.arg, None) \notin DOMAIN agents'
             /\ ~InList(last'.path, state'.enabled)
             /\ ~InList(last'.path, state'.disabled)
             /\ PathToFilename(last'.path) \notin DOMAIN files'
             /\ OthersUnchanged(agents, agents', last'.path)
             /\ OtherStatusUnchanged(state, state', last'.path)]_vars

\* C12: delete, toggle and update on a path that is not in the index return
\* false (update: raise not-found), attempt no write and leave the index, the
\* lists, the record files and state.json as they were.
C12_UnknownPathChangesNothing ==
    [][(last'.op \in {"delete", "toggle", "update"} /\ last'.path \notin DOMAIN agents)
          => /\ last'.res = (IF last'.op = "update" THEN "NotFound" ELSE "False")
             /\ last'.wr = "none" /\ last'.ws = "none" /\ last'.ul = "none"
             /\ UNCHANGED <<agents, state, files, stateFile>>]_vars

\* C12: a toggle on an unknown path returned false while the registry holds
\* another record.
C12_Witness ==
    /\ last.op = "toggle" /\ last.res = "False"
    /\ last.path \notin DOMAIN agents
    /\ agents # <<>>

\* C13: an update that succeeds changes, in the stored record, only the
\* fields its caller supplied and updated_at, which it sets to the current
\* time whatever the caller supplied; no other record and neither list
\* changes.
C13_UpdateFrame ==
    [][\A u \in PatchesWide :
          (last'.op = "update" /\ last'.res = "ok" /\ Update(last'.arg, u, {"ok"}))
              => LET path == NormalizePath(last'.arg, None) IN
                 /\ \A f \in CardFields \ (DOMAIN u \cup {"updated_at"}) :
                        agents'[path][f] = agents[path][f]
                 /\ \A f \in DOMAIN u \ {"updated_at"} : agents'[path][f] = u[f]
                 /\ agents'[path].updated_at = clock
                 /\ OthersUnchanged(agents, agents', path)
                 /\ DOMAIN agents' = DOMAIN agents
                 /\ state' = state]_vars

\* C13: an update has succeeded on one of two records, later than the
\* registration of the record it changed.
C13_Witness ==
    /\ last.op = "update" /\ last.res = "ok"
    /\ Cardinality(DOMAIN agents) = 2
    /\ agents[last.path].description = <<"y">>
    /\ agents[last.path].updated_at > agents[last.path].registered_at

\* The request names no path and has an empty name.
MissingPathAndName(request) == request.path = None /\ request.name = <<>>

\* Some skill entry of the request lacks a required key.
MalformedSkill(request) ==
    \E i \in 1..Len(request.skills) :
        ~({"id", "name", "description"} \subseteq DOMAIN request.skills[i])

\* C14: a register whose request fails structural validation fails before
\* any write: no record file and no state.json write, index and lists as
\* they were.
C14_InvalidRegisterWritesNothing ==
    [][\A r \in Requests :
          (/\ last'.op = "register" /\ last'.arg = r.path
           /\ (MissingPathAndName(r) \/ MalformedSkill(r))
           /\ Register(r, WriteOutcomes))
              => /\ last'.res \in {"InvalidInput", "DuplicatePath"}
                 /\ last'.wr = "none" /\ last'.ws = "none"
                 /\ UNCHANGED <<agents, state, files, stateFile>>]_vars

\* C14: a register was refused for a malformed skill entry, on a registry
\* that holds a record.
C14_Witness ==
    /\ last.op = "register" /\ last.res = "InvalidInput"
    /\ last.path # None
    /\ agents # <<>>

\* The normalizer returned a path.
Normalized ==
    last.op \in {"normalize", "normalize_name"} /\ last.res = "ok"

\* C16: normalising a normalised path gives the same path, for every input
\* string.
C16_NormalizeIdempotent ==
    Normalized => NormalizePath(last.path, None) = last.path

\* C17: every path the normalizer returns starts with "/" and has no
\* trailing "/" unless it is the root "/".
C17_CanonicalShape ==
    Normalized
        => /\ StartsWith(last.path, <<"/">>)
           /\ (EndsWith(last.path, <<"/">>) => last.path = <<"/">>)

\* The slash-free non-empty names, and the three spellings of one.
Names == {x \in Strings(MaxLen - 2) : x # <<>> /\ \A i \in 1..Len(x) : x[i] # "/"}

Spellings(p) == {p, <<"/">> \o p, <<"/">> \o p \o <<"/">>}

\* C18: the three spellings of a slash-free name p normalise to "/" + p; a
\* registered "/" + p is found by get and is_enabled under every spelling,
\* toggle and delete called with any spelling act on it and return True,
\* and register with any spelling is refused as a duplicate.
C18_SpellingsAreOnePath ==
    /\ \A p \in Names : \A s \in Spellings(p) : NormalizePath(s, None) = <<"/">> \o p
    /\ [][\A key \in DOMAIN agents :
            LET p == IF key = <<>> THEN <<>> ELSE Tail(key) IN
            p \in Names /\ key = <<"/">> \o p
                => /\ \A s \in Spellings(p) :
                        /\ Get(s) = agents[key]
                        /\ IsEnabled(s) = InList(key, state.enabled)
                   /\ (last'.op = "register" /\ last'.arg \in Spellings(p))
                         => last'.res = "DuplicatePath" /\ agents' = agents
                   /\ (last'.op = "toggle" /\ last'.arg \in Spellings(p))
                         => /\ last'.res = "True"
                            /\ InList(key, state'.enabled) = last'.en
                            /\ InList(key, state'.disabled) = ~last'.en
                   /\ (last'.op = "delete" /\ last'.arg \in Spellings(p))
                         => last'.res = "True" /\ key \notin DOMAIN agents']_vars

C18_Witness ==
    /\ last.op = "register" /\ last.res = "DuplicatePath"
    /\ last.arg = <<"/", "a", "/">>
    /\ DOMAIN agents = {<<"/", "a">>}
    /\ \A s \in Spellings(<<"a">>) : Get(s) = agents[<<"/", "a">>] /\ ~IsEnabled(s)

\* C19: initialize() appends to the enabled list of the loaded state file
\* exactly the loaded record paths that are in neither of its lists, each
\* once, and changes nothing else: the loaded enabled list is kept as a
\* prefix, the disabled list is the loaded one, and no file is written.
C19_ReconcileAppendsOnlyNewPaths ==
    [][last'.op = "restart"
          => LET st       == LoadStateFile(stateFile, EmptyState)
                 n        == Len(st.enabled)
                 appended == SubSeq(state'.enabled, n + 1, Len(state'.enabled))
             IN  /\ Len(state'.enabled) >= n
                 /\ SubSeq(state'.enabled, 1, n) = st.enabled
                 /\ Elems(appended) = {p \in DOMAIN agents' : ~InList(p, st.enabled)
                                                               /\ ~InList(p, st.disabled)}
                 /\ Len(appended) = Cardinality(Elems(appended))
                 /\ state'.disabled = st.disabled
                 /\ UNCHANGED <<files, stateFile>>]_vars

C19_Witness ==
    /\ last.op = "restart"
    /\ stateFile.kind = "json"
    /\ Len(state.enabled) > Len(stateFile.data.enabled)
    /\ \E p \in DOMAIN agents : InList(p, stateFile.data.disabled) /\ ~InList(p, state.enabled)

\* state.json holds an object with both lists.
WellShaped(sf) == sf.kind = "json" /\ DOMAIN sf.data = {"enabled", "disabled"}

\* C20: initialize() completes whatever state.json holds, and when the file
\* is missing, unparseable or lacks a key, the lists start empty, so that
\* after reconciliation every loaded path is enabled once and none disabled.
C20_LoadStateNeverFails ==
    last.op = "restart"
        => /\ last.res = "ok"
           /\ ~WellShaped(stateFile)
                => /\ DOMAIN state = {"enabled", "disabled"}
                   /\ state.disabled = <<>>
                   /\ Elems(state.enabled) = DOMAIN agents
                   /\ Len(state.enabled) = Cardinality(DOMAIN agents)

\* The handlers that are between two statements of a mutation.
MidMutation ==
    {t \in Tasks : loop.tasks[t].op \in Mutations /\ loop.tasks[t].pc # "start"}

\* C15: with requests in flight together, at most one handler is inside a
\* mutation, and get, list and discover read the registry only when none
\* is: the index and the lists they read agree on the paths.
C15_ReadsSeeWholeMutations ==
    [][/\ Cardinality(MidMutation') <= 1
       /\ (\E t \in Tasks : ReadStep(t)) => MidMutation = {} /\ IndexAndListsAgree]_vars

C15_Witness ==
    /\ last.op = "discover" /\ last.res = "ok"
    /\ \E t \in Tasks : loop.tasks[t].op = "discover" /\ loop.tasks[t].pc = "mcp"
    /\ \E t \in Tasks : loop.tasks[t].op = "delete" /\ loop.tasks[t].pc = "start"
                        /\ NormalizePath(loop.tasks[t].raw, None) \in DOMAIN agents

\* The results of the discover request: those built so far while it is in
\* flight, the response once it returned.
DiscoverResults ==
    IF loop.tasks["t1"].op = "discover" THEN loop.tasks["t1"].results ELSE last.ret

\* This step runs discover from its first line.
DiscoverBegins ==
    /\ loop.tasks["t1"] = Idle
    /\ loop'.tasks["t1"].op = "discover" \/ last'.op = "discover"

\* The tracker has the record's path enabled.
RecordEnabled(agent) == InList(NormalizePath(agent.path, None), state.enabled)

\* The record matches the query by its text or by a requested skill.
RecordMatches(agent, query) ==
    \/ query.query = <<>>
    \/ Contains(Lower(agent.name \o <<" ">> \o agent.description \o <<" ">> \o Join(agent.tags, " ")),
                Lower(query.query))
    \/ \E i \in 1..Len(query.skills), j \in 1..Len(agent.skills) :
          Lower(query.skills[i]) = Lower(agent.skills[j].name)

Failed(outcome) == outcome \in {"error", "timeout"}

\* C22: a collaborator call that fails or times out does not fail the
\* discover request: the agents found before the call stay in the results,
\* the failed branch is an empty list, and the response is returned.
C22_CollaboratorFailureIsolated ==
    [][(loop.tasks["t1"].op = "discover" /\ loop'.tasks["t1"] # loop.tasks["t1"])
          => LET before == loop.tasks["t1"].results
                 after  == DiscoverResults'
             IN  /\ after.agents = before.agents
                 /\ Failed(after.mcp) => after.mcp_servers = <<>>
                 /\ Failed(after.ollama) => after.local_models = <<>>
                 /\ (Failed(after.mcp) /\ before.mcp = "not_called" /\ ~WantsModels(before.query))
                       => last'.op = "discover" /\ last'.res = "ok" /\ last'.ret = after
                 /\ Failed(after.ollama)
                       => last'.op = "discover" /\ last'.res = "ok" /\ last'.ret = after]_vars

C22_Witness ==
    /\ last.op = "discover" /\ last.res = "ok"
    /\ last.ret.mcp = "timeout" /\ last.ret.ollama = "error"
    /\ last.ret.mcp_servers = <<>> /\ last.ret.local_models = <<>>
    /\ last.ret.agents # {}

\* The query text holds a local-inference hint.
HasLocalHint(text) ==
    \E w \in {<<"l", "o", "c", "a", "l">>, <<"o", "l", "l", "a", "m", "a">>} :
        Contains(Lower(text), w)

\* C23: discover searches the MCP registry exactly when require_local is
\* false (and otherwise returns no MCP servers), runs the model discovery
\* exactly when require_local is true or the query text has a local hint,
\* and the agents of the response are those found before either call.
C23_CollaboratorsChosenByQuery ==
    [][LET r == DiscoverResults' IN
       /\ (loop'.tasks["t1"].op = "discover" /\ loop'.tasks["t1"].pc = "mcp")
             => ~r.query.require_local
       /\ (last'.op = "discover" \/ loop'.tasks["t1"].op = "discover")
             => /\ (loop'.tasks["t1"].op = "idle" \/ loop'.tasks["t1"].pc # "mcp")
                      => /\ (r.mcp # "not_called") = ~r.query.require_local
                         /\ r.query.require_local => r.mcp_servers = <<>>
                /\ (loop'.tasks["t1"].op = "idle" \/ loop'.tasks["t1"].pc = "hung")
                      => (r.ollama # "not_called")
                             = (r.query.require_local \/ HasLocalHint(r.query.query))
       /\ loop.tasks["t1"].op = "discover" => r.agents = loop.tasks["t1"].results.agents]_vars

C23_Witness ==
    /\ last.op = "discover"
    /\ last.ret.query.require_local
    /\ last.ret.mcp = "not_called" /\ last.ret.ollama = "answer"
    /\ last.ret.local_models # <<>> /\ last.ret.agents # {}

\* C24: every discover request returns a response.
C24_DiscoverReturns ==
    (loop.tasks["t1"].op = "discover") ~> (loop.tasks["t1"].op = "idle")

\* C25: a second toggle(path, e) right after a first one on a known path
\* leaves both lists as the first left them, and writes state.json again.
C25_ToggleIdempotent ==
    [][(/\ last.op = "toggle" /\ last.res = "True"
        /\ last'.op = "toggle" /\ last'.path = last.path /\ last'.en = last.en)
          => /\ last'.res = "True"
             /\ state' = state
             /\ last'.ws # "none"]_vars

\* C26: for every record of the index, the stored is_enabled is true
\* exactly when the record's path is in the enabled list.
C26_StoredFlagMirrorsTracker ==
    \A k \in DOMAIN agents :
        agents[k].is_enabled = InList(agents[k].path, state.enabled)

\* The record file parses and holds a record with its required fields.
WellFormedRecord(content) ==
    /\ content.kind = "json"
    /\ \A field \in {"name", "description", "path"} :
          field \in DOMAIN content.data /\ content.data[field] # None

\* C27: initialize() completes whatever the record files hold; the index
\* holds exactly the records of the well-formed files, and every path that
\* is in a list afterwards and not in the index was already in state.json.
C27_BadRecordFileSkipped ==
    [][last'.op = "restart"
          => LET good == {f \in DOMAIN files : WellFormedRecord(files[f])}
                 st   == LoadStateFile(stateFile, EmptyState)
             IN  /\ last'.res = "ok"
                 /\ DOMAIN agents' = {files[f].data.path : f \in good}
                 /\ \A f \in good : agents'[files[f].data.path] = files[f].data
                 /\ \A q \in Elems(state'.enabled) \cup Elems(state'.disabled) :
                       q \in DOMAIN agents' \/ InList(q, st.enabled) \/ InList(q, st.disabled)]_vars

C27_Witness ==
    /\ last.op = "restart" /\ last.res = "ok"
    /\ DOMAIN files = {PathToFilename(<<"/", "a">>), PathToFilename(<<"/", "b">>)}
    /\ files[PathToFilename(<<"/", "a">>)] = Garbage
    /\ files[PathToFilename(<<"/", "b">>)] = RecordOf(<<"/", "b">>)
    /\ DOMAIN agents = {<<"/", "b">>}
    /\ state = [enabled |-> <<<<"/", "b">>>>, disabled |-> <<>>]

\* C28: every index entry is keyed by the path of the record it holds, and
\* no two entries hold records with the same path.
C28_KeyedByOwnPath ==
    /\ \A k \in DOMAIN agents : agents[k].path = k
    /\ \A j, k \in DOMAIN agents : agents[j].path = agents[k].path => j = k

\* C29: with no I/O failures, a restart after any sequence of register and
\* delete calls yields an index with the same set of paths.
C29_RestartKeepsPaths ==
    [][last'.op = "restart" => DOMAIN agents' = DOMAIN agents]_vars

\* C30: when the process stops after any statement of register or delete
\* and is restarted, the index and the lists agree and the path of the
\* interrupted call is either nowhere, or indexed and enabled.
C30_CrashConsistent ==
    [][(last'.op = "restart" /\ loop' = IdleLoop)
          => LET task == loop.tasks["t1"]
                 path == NormalizePath(task.raw, None)
             IN  /\ IndexAndListsAgree'
                 /\ task.op \in {"register", "delete"}
                       => \/ /\ path \notin DOMAIN agents'
                             /\ ~InList(path, state'.enabled)
                             /\ ~InList(path, state'.disabled)
                          \/ /\ path \in DOMAIN agents'
                             /\ InList(path, state'.enabled)
                             /\ ~InList(path, state'.disabled)]_vars

====
